---- MODULE Spec2Model ----
(***************************************************************************)
(* Userspace RCU (RcuManager), its asynchronous reclaimer                  *)
(* (GarbageCollector<RcuListNode>) and the lock-free stack RcuList.        *)
(*                                                                         *)
(* Memory is sequentially consistent in this model: the two membarrier     *)
(* calls of synchronize are what give the relaxed loads and stores of the  *)
(* readers that ordering, so they appear here as the points where          *)
(* synchronize takes and releases the registry mutex.                      *)
(***************************************************************************)
EXTENDS Integers, Sequences, FiniteSets, TLC

(***************************************************************************)
(* Bounds of the model.                                                    *)
(***************************************************************************)
\* Threads 1..NThreads use the bare manager; thread 0 is the reclaimer worker.
NThreads == 3
\* Threads 1..NClients use the stack.
NClients == 2
\* Width of the per-thread counter word (64 in the source).
WordBits == 4
\* Deepest nesting a client of the bare manager enters.
MaxNest == 2
\* synchronize calls of the main thread in the thread-churn scenario.
MaxSyncs == 2
\* Addresses the allocator hands out, 1..NAddrs.
NAddrs == 2
\* Values pushed and searched for, 1..NVals.
NVals == 2
\* push, pop and search calls of client 1 of the stack.
MaxOps == 3
\* push, pop and search calls of each other client of the stack.
OtherOps == 1
\* push, pop and search calls of the client that runs alone.
MaxSeqOps == 4
\* Polls of an empty intake the worker makes before it waits for a discard.
MaxEmptyPolls == 1
\* registerCurrentThread calls of the thread that registers repeatedly.
MaxRegs == 3
\* readUnlock calls a thread makes at depth 0.
MaxStray == 1
\* What pop returns on an empty stack.
DEAD == 57005

GC == 0
Threads == 1..NThreads
Clients == 1..NClients
AllThreads == {GC} \cup Threads \cup Clients
NoOwner == -1
Addrs == 1..NAddrs
Values == 1..NVals
\* A pointer is an address and, for the history only, which of the nodes
\* that the address has held it was loaded from or stored for.
Null == <<0, 0>>

(***************************************************************************)
(* The counter word: grace-period bit on top, nesting depth below.         *)
(***************************************************************************)
RECURSIVE Pow2(_)
Pow2(n) == IF n = 0 THEN 1 ELSE 2 * Pow2(n - 1)

WordMod == Pow2(WordBits)
GP_COUNTER_MASK == Pow2(WordBits - 1)
NESTING_MASK == GP_COUNTER_MASK - 1

\* w & NESTING_MASK
Nesting(w) == w % GP_COUNTER_MASK
\* w & GP_COUNTER_MASK
GPBit(w) == (w \div GP_COUNTER_MASK) * GP_COUNTER_MASK
\* w ^ GP_COUNTER_MASK
ToggleGP(w) == IF w >= GP_COUNTER_MASK THEN w - GP_COUNTER_MASK ELSE w + GP_COUNTER_MASK

VARIABLES
    pc,                  \* each thread's position in its code
    mutex,               \* RcuManager::mutex: the owner, or NoOwner
    globalGracePeriod,   \* RcuManager::globalGracePeriod
    entries,             \* RcuManager::entries, as the threads whose entry it holds
    gracePeriodCounter,  \* threadLocalEntry.gracePeriodCounter of each thread
    global,              \* readLock's local `global`
    newGracePeriod,      \* toggleAndWaitForThreads' local
    entryIt,             \* toggleAndWaitForThreads' position in entries
    head,                \* RcuList::head
    gcHead,              \* GarbageCollector::head
    done,                \* GarbageCollector::done
    next,                \* RcuListNode::next of the node at each address
    data,                \* RcuListNode::data of the node at each address
    live,                \* the address holds a node (allocated, not deleted)
    gen,                 \* how many nodes the address has held
    oldHead,             \* pop's oldHead, push's old
    newHead,             \* pop's newHead
    node,                \* push's newNode
    gcOld,               \* discard's and gcLoop's oldHead
    cur,                 \* search's and gcLoop's cur
    arg,                 \* the data argument of push and search
    found,               \* search's return value
    success,             \* the result of the last compare_exchange_weak
    ret,                 \* where the running search returns to
    opsLeft,             \* operations the thread may still start
    waitFor,             \* history: readers still in the critical section they were
                         \*   in when the thread called synchronize
    readersAtCall,       \* history: readers in a critical section at that call
    beforeFlip,          \* history: readers still in the critical section they were
                         \*   in at the first flip of the thread's synchronize call
    batch,               \* history: addresses of the batch the worker holds
    syncsOfBatch,        \* history: synchronize calls returned since the capture
    stable,              \* history: search's value has been in the stack all along
    discarded,           \* history: the nodes whose discard has returned
    hist,                \* history: the calls of the stack that returned, in order
    recordHist           \* history: whether hist is kept in this specification

mgrVars == <<mutex, globalGracePeriod, entries, gracePeriodCounter, global,
             newGracePeriod, entryIt>>
heapVars == <<head, gcHead, done, next, data, live, gen>>
localVars == <<oldHead, newHead, node, gcOld, cur, arg, found, success, ret>>
rcuHist == <<waitFor, readersAtCall, beforeFlip>>
listHist == <<batch, syncsOfBatch, stable, discarded>>
progVars == <<pc, mgrVars, heapVars, localVars, opsLeft>>
vars == <<progVars, rcuHist, listHist, hist, recordHist>>

\* A thread is registered when the registry holds its entry.
Registered(t) == \E i \in 1..Len(entries) : entries[i] = t
\* The thread is inside a read-side critical section.
InCS(t) == Nesting(gracePeriodCounter[t]) > 0
\* spotInList: where the thread's entry is in the registry.
spotInList(t) == CHOOSE i \in 1..Len(entries) : entries[i] = t
RemoveAt(s, i) == SubSeq(s, 1, i - 1) \o SubSeq(s, i + 1, Len(s))

(***************************************************************************)
(* RcuManager                                                              *)
(***************************************************************************)
\* RcuManager::RcuManager, and the zero-initialised thread locals.
ManagerInit ==
    /\ mutex = NoOwner
    /\ globalGracePeriod = 1
    /\ entries = <<>>
    /\ gracePeriodCounter = [t \in AllThreads |-> 0]
    /\ global = [t \in AllThreads |-> 0]
    /\ newGracePeriod = [t \in AllThreads |-> 0]
    /\ entryIt = [t \in AllThreads |-> 0]

\* registerCurrentThread without the store of 0 to the thread's counter.
RegisterKeepCounter(t, at, to) ==
    /\ pc[t] = at
    /\ mutex = NoOwner
    /\ entries' = Append(entries, t)
    /\ pc' = [pc EXCEPT ![t] = to]
    /\ UNCHANGED <<mutex, globalGracePeriod, gracePeriodCounter, global, newGracePeriod,
                   entryIt>>

\* registerCurrentThread, from `at`, returning to `to`.  The body runs
\* under the registry mutex, so it is one step once the mutex is free.
RegisterThread(t, at, to) ==
    /\ pc[t] = at
    /\ mutex = NoOwner
    /\ gracePeriodCounter' = [gracePeriodCounter EXCEPT ![t] = 0]
    /\ entries' = Append(entries, t)
    /\ pc' = [pc EXCEPT ![t] = to]
    /\ UNCHANGED <<mutex, globalGracePeriod, global, newGracePeriod, entryIt>>

\* unregisterCurrentThread: entries.erase(spotInList).
UnregisterThread(t, at, to) ==
    /\ pc[t] = at
    /\ mutex = NoOwner
    /\ Registered(t)
    /\ entries' = RemoveAt(entries, spotInList(t))
    /\ pc' = [pc EXCEPT ![t] = to]
    /\ UNCHANGED <<mutex, globalGracePeriod, gracePeriodCounter, global,
                   newGracePeriod, entryIt>>

\* readLock taking the outermost branch at every depth.
ReadLockReload(t, at, mid, to) ==
    /\ pc[t] = at
    /\ global' = [global EXCEPT ![t] = globalGracePeriod]
    /\ pc' = [pc EXCEPT ![t] = mid]
    /\ UNCHANGED <<mutex, globalGracePeriod, entries, gracePeriodCounter, newGracePeriod,
                   entryIt>>

\* readLock up to the load of the global word: the nested branch is
\* complete after this step, the outermost branch still has its store to do.
ReadLockLoad(t, at, mid, to) ==
    /\ pc[t] = at
    /\ LET tmp == gracePeriodCounter[t] IN
       IF Nesting(tmp) = 0
       THEN /\ global' = [global EXCEPT ![t] = globalGracePeriod]
            /\ pc' = [pc EXCEPT ![t] = mid]
            /\ UNCHANGED gracePeriodCounter
       ELSE /\ gracePeriodCounter' = [gracePeriodCounter EXCEPT ![t] = (tmp + 1) % WordMod]
            /\ pc' = [pc EXCEPT ![t] = to]
            /\ UNCHANGED global
    /\ UNCHANGED <<mutex, globalGracePeriod, entries, newGracePeriod, entryIt>>

\* readLock's store with the depth one too high.
ReadLockStoreDeep(t, mid, to) ==
    /\ pc[t] = mid
    /\ gracePeriodCounter' = [gracePeriodCounter EXCEPT ![t] = (global[t] + 1) % WordMod]
    /\ global' = [global EXCEPT ![t] = 0]
    /\ pc' = [pc EXCEPT ![t] = to]
    /\ UNCHANGED <<mutex, globalGracePeriod, entries, newGracePeriod, entryIt>>

\* readLock's store made only while the registry mutex is free.
ReadLockStoreFree(t, mid, to) ==
    /\ pc[t] = mid
    /\ mutex = NoOwner
    /\ gracePeriodCounter' = [gracePeriodCounter EXCEPT ![t] = global[t]]
    /\ global' = [global EXCEPT ![t] = 0]
    /\ pc' = [pc EXCEPT ![t] = to]
    /\ UNCHANGED <<mutex, globalGracePeriod, entries, newGracePeriod, entryIt>>

\* readLock's store of the loaded global word into the thread's counter.
ReadLockStore(t, mid, to) ==
    /\ pc[t] = mid
    /\ gracePeriodCounter' = [gracePeriodCounter EXCEPT ![t] = global[t]]
    /\ global' = [global EXCEPT ![t] = 0]
    /\ pc' = [pc EXCEPT ![t] = to]
    /\ UNCHANGED <<mutex, globalGracePeriod, entries, newGracePeriod, entryIt>>

\* readUnlock that leaves a counter at depth 0 alone.
ReadUnlockChecked(t, at, to) ==
    /\ pc[t] = at
    /\ gracePeriodCounter' =
           [gracePeriodCounter EXCEPT ![t] = IF Nesting(gracePeriodCounter[t]) = 0
                                             THEN gracePeriodCounter[t]
                                             ELSE gracePeriodCounter[t] - 1]
    /\ pc' = [pc EXCEPT ![t] = to]
    /\ UNCHANGED <<mutex, globalGracePeriod, entries, global, newGracePeriod, entryIt>>

\* readUnlock: the counter is written by its own thread alone, so the load
\* and the store of tmp - 1 are one step.
ReadUnlock(t, at, to) ==
    /\ pc[t] = at
    /\ gracePeriodCounter' =
           [gracePeriodCounter EXCEPT ![t] = (gracePeriodCounter[t] + WordMod - 1) % WordMod]
    /\ pc' = [pc EXCEPT ![t] = to]
    /\ UNCHANGED <<mutex, globalGracePeriod, entries, global, newGracePeriod, entryIt>>

\* synchronize taking the mutex without waiting for it.
SyncLockBarge(t) ==
    /\ pc[t] = "sync_lock"
    /\ mutex' = t
    /\ pc' = [pc EXCEPT ![t] = "sync_toggle1"]
    /\ UNCHANGED <<globalGracePeriod, entries, gracePeriodCounter, global,
                   newGracePeriod, entryIt>>

\* synchronize: take the registry mutex (and the first membarrier).
SyncLock(t) ==
    /\ pc[t] = "sync_lock"
    /\ mutex = NoOwner
    /\ mutex' = t
    /\ pc' = [pc EXCEPT ![t] = "sync_toggle1"]
    /\ UNCHANGED <<globalGracePeriod, entries, gracePeriodCounter, global,
                   newGracePeriod, entryIt>>

\* toggleAndWaitForThreads, its first four lines: flip the top bit.
ToggleGracePeriod(t, at, to) ==
    /\ pc[t] = at
    /\ globalGracePeriod' = ToggleGP(globalGracePeriod)
    /\ newGracePeriod' = [newGracePeriod EXCEPT ![t] = ToggleGP(globalGracePeriod)]
    /\ entryIt' = [entryIt EXCEPT ![t] = 1]
    /\ pc' = [pc EXCEPT ![t] = to]
    /\ UNCHANGED <<mutex, entries, gracePeriodCounter, global>>

WaitQuiescentOnly(entryGP, newGP) == Nesting(entryGP) = 0

\* The test passing on whatever is loaded.
WaitAlways(entryGP, newGP) == TRUE

\* The test toggleAndWaitForThreads makes of one load of an entry's counter.
WaitPredicate(entryGP, newGP) ==
    \/ Nesting(entryGP) = 0
    \/ GPBit(entryGP) = GPBit(newGP)

\* toggleAndWaitForThreads, its loop: one load of the current entry's
\* counter, then on to the next entry, or sleep and poll again.
WaitForThreads(t, at, to) ==
    /\ pc[t] = at
    /\ IF entryIt[t] > Len(entries)
       THEN /\ pc' = [pc EXCEPT ![t] = to]
            /\ entryIt' = [entryIt EXCEPT ![t] = 0]
            /\ newGracePeriod' = [newGracePeriod EXCEPT ![t] = 0]
       ELSE LET entryGP == gracePeriodCounter[entries[entryIt[t]]] IN
            IF WaitPredicate(entryGP, newGracePeriod[t])
            THEN /\ entryIt' = [entryIt EXCEPT ![t] = entryIt[t] + 1]
                 /\ UNCHANGED <<pc, newGracePeriod>>
            ELSE UNCHANGED <<pc, entryIt, newGracePeriod>>
    /\ UNCHANGED <<mutex, globalGracePeriod, entries, gracePeriodCounter, global>>

\* synchronize returning with the mutex still held.
SyncReturnLocked(t, to) ==
    /\ pc[t] = "sync_unlock"
    /\ mutex = t
    /\ pc' = [pc EXCEPT ![t] = to]
    /\ UNCHANGED <<mutex, globalGracePeriod, entries, gracePeriodCounter, global,
                   newGracePeriod, entryIt>>

\* synchronize's return: the second membarrier, and the mutex is released.
SyncUnlock(t, to) ==
    /\ pc[t] = "sync_unlock"
    /\ mutex = t
    /\ mutex' = NoOwner
    /\ pc' = [pc EXCEPT ![t] = to]
    /\ UNCHANGED <<globalGracePeriod, entries, gracePeriodCounter, global,
                   newGracePeriod, entryIt>>

SyncToggle1(t) == ToggleGracePeriod(t, "sync_toggle1", "sync_wait1")
SyncWait1Single(t) == WaitForThreads(t, "sync_wait1", "sync_unlock")
SyncWait1(t) == WaitForThreads(t, "sync_wait1", "sync_toggle2")
SyncToggle2(t) == ToggleGracePeriod(t, "sync_toggle2", "sync_wait2")
SyncWait2(t) == WaitForThreads(t, "sync_wait2", "sync_unlock")

SyncPcs == {"sync_lock", "sync_toggle1", "sync_wait1", "sync_toggle2", "sync_wait2",
            "sync_unlock"}

\* synchronize, called from a thread that returns to `to`.
synchronize(t, to) ==
    \/ SyncLock(t)
    \/ SyncToggle1(t)
    \/ SyncWait1(t)
    \/ SyncToggle2(t)
    \/ SyncWait2(t)
    \/ SyncUnlock(t, to)

(***************************************************************************)
(* The heap of RcuListNode                                                 *)
(***************************************************************************)
\* The pointer still points to the node it was taken from.
Valid(p) == p # Null /\ live[p[1]] /\ gen[p[1]] = p[2]
\* Pointer comparison, as compare_exchange_weak makes it: by address.
SameAddr(p, q) == p[1] = q[1]

\* RcuList::RcuList and GarbageCollector::GarbageCollector, with no node
\* allocated yet.
HeapInit ==
    /\ head = Null
    /\ gcHead = Null
    /\ done = FALSE
    /\ next = [a \in Addrs |-> Null]
    /\ data = [a \in Addrs |-> 0]
    /\ live = [a \in Addrs |-> FALSE]
    /\ gen = [a \in Addrs |-> 0]

LocalsInit ==
    /\ oldHead = [t \in AllThreads |-> Null]
    /\ newHead = [t \in AllThreads |-> Null]
    /\ node = [t \in AllThreads |-> Null]
    /\ gcOld = [t \in AllThreads |-> Null]
    /\ cur = [t \in AllThreads |-> Null]
    /\ arg = [t \in AllThreads |-> 0]
    /\ found = [t \in AllThreads |-> FALSE]
    /\ success = [t \in AllThreads |-> FALSE]
    /\ ret = [t \in AllThreads |-> "idle"]

\* A manager call made from the stack or the reclaimer leaves their state alone.
Manager(step) == step /\ UNCHANGED <<heapVars, localVars, opsLeft>>

\* readLock called at `at`, continuing at `to`.
readLock(t, at, mid, to) ==
    Manager(ReadLockLoad(t, at, mid, to) \/ ReadLockStore(t, mid, to))

(***************************************************************************)
(* RcuList::push                                                           *)
(***************************************************************************)
\* new RcuListNode { nullptr, data }: any free address.
PushCall(t) ==
    /\ pc[t] = "idle"
    /\ opsLeft[t] > 0
    /\ \E v \in Values, a \in Addrs :
          /\ ~live[a]
          /\ live' = [live EXCEPT ![a] = TRUE]
          /\ gen' = [gen EXCEPT ![a] = gen[a] + 1]
          /\ next' = [next EXCEPT ![a] = Null]
          /\ data' = [data EXCEPT ![a] = v]
          /\ node' = [node EXCEPT ![t] = <<a, gen[a] + 1>>]
          /\ arg' = [arg EXCEPT ![t] = v]
    /\ opsLeft' = [opsLeft EXCEPT ![t] = opsLeft[t] - 1]
    /\ pc' = [pc EXCEPT ![t] = "push_lock"]
    /\ UNCHANGED <<mgrVars, head, gcHead, done, oldHead, newHead, gcOld, cur, found,
                   success, ret>>

PushLock(t) == readLock(t, "push_lock", "push_lock_store", "push_load")

\* old = head.load(); newNode->next.store(old).
PushLoad(t) ==
    /\ pc[t] = "push_load"
    /\ oldHead' = [oldHead EXCEPT ![t] = head]
    /\ next' = [next EXCEPT ![node[t][1]] = head]
    /\ pc' = [pc EXCEPT ![t] = "push_cas"]
    /\ UNCHANGED <<mgrVars, head, gcHead, done, data, live, gen, newHead, node, gcOld,
                   cur, arg, found, success, ret, opsLeft>>

\* head.compare_exchange_weak(old, newNode), which may fail spuriously.
PushCAS(t) ==
    /\ pc[t] = "push_cas"
    /\ \E ok \in {SameAddr(head, oldHead[t]), FALSE} :
          /\ success' = [success EXCEPT ![t] = ok]
          /\ head' = IF ok THEN node[t] ELSE head
    /\ pc' = [pc EXCEPT ![t] = "push_unlock"]
    /\ UNCHANGED <<mgrVars, gcHead, done, next, data, live, gen, oldHead, newHead, node,
                   gcOld, cur, arg, found, ret, opsLeft>>

\* readUnlock and the loop test: return, or try again.
PushUnlock(t) ==
    /\ ReadUnlock(t, "push_unlock", IF success[t] THEN "idle" ELSE "push_lock")
    /\ oldHead' = [oldHead EXCEPT ![t] = Null]
    /\ node' = [node EXCEPT ![t] = IF success[t] THEN Null ELSE node[t]]
    /\ arg' = [arg EXCEPT ![t] = IF success[t] THEN 0 ELSE arg[t]]
    /\ success' = [success EXCEPT ![t] = FALSE]
    /\ UNCHANGED <<heapVars, newHead, gcOld, cur, found, ret, opsLeft>>

(***************************************************************************)
(* RcuList::search                                                         *)
(***************************************************************************)
SearchCall(t) ==
    /\ pc[t] = "idle"
    /\ opsLeft[t] > 0
    /\ \E v \in Values : arg' = [arg EXCEPT ![t] = v]
    /\ ret' = [ret EXCEPT ![t] = "search_return"]
    /\ opsLeft' = [opsLeft EXCEPT ![t] = opsLeft[t] - 1]
    /\ pc' = [pc EXCEPT ![t] = "search_lock"]
    /\ UNCHANGED <<mgrVars, heapVars, oldHead, newHead, node, gcOld, cur, found, success>>

SearchLock(t) == readLock(t, "search_lock", "search_lock_store", "search_head")

\* cur = head.load(), and the loop test.
SearchHead(t) ==
    /\ pc[t] = "search_head"
    /\ cur' = [cur EXCEPT ![t] = head]
    /\ found' = [found EXCEPT ![t] = FALSE]
    /\ pc' = [pc EXCEPT ![t] = IF head = Null THEN "search_unlock" ELSE "search_visit"]
    /\ UNCHANGED <<mgrVars, heapVars, oldHead, newHead, node, gcOld, arg, success, ret,
                   opsLeft>>

\* search looking at the top node only.
SearchVisitTopOnly(t) ==
    /\ pc[t] = "search_visit"
    /\ found' = [found EXCEPT ![t] = data[cur[t][1]] = arg[t]]
    /\ cur' = [cur EXCEPT ![t] = Null]
    /\ pc' = [pc EXCEPT ![t] = "search_unlock"]
    /\ UNCHANGED <<mgrVars, heapVars, oldHead, newHead, node, gcOld, arg, success, ret,
                   opsLeft>>

\* One turn of the loop: cur->data, then cur->next and the loop test.  A
\* node's data is never written after its allocation, so the two loads of
\* the node are one step.
SearchVisit(t) ==
    /\ pc[t] = "search_visit"
    /\ IF data[cur[t][1]] = arg[t]
       THEN /\ found' = [found EXCEPT ![t] = TRUE]
            /\ cur' = [cur EXCEPT ![t] = Null]
            /\ pc' = [pc EXCEPT ![t] = "search_unlock"]
       ELSE /\ cur' = [cur EXCEPT ![t] = next[cur[t][1]]]
            /\ pc' = [pc EXCEPT ![t] = IF next[cur[t][1]] = Null THEN "search_unlock"
                                       ELSE "search_visit"]
            /\ UNCHANGED found
    /\ UNCHANGED <<mgrVars, heapVars, oldHead, newHead, node, gcOld, arg, success, ret,
                   opsLeft>>

\* readUnlock, and the return to the caller.
SearchUnlock(t) ==
    /\ ReadUnlock(t, "search_unlock", ret[t])
    /\ ret' = [ret EXCEPT ![t] = "idle"]
    /\ UNCHANGED <<heapVars, oldHead, newHead, node, gcOld, cur, arg, found, success,
                   opsLeft>>

\* The caller of search takes the result.
SearchReturn(t) ==
    /\ pc[t] = "search_return"
    /\ pc' = [pc EXCEPT ![t] = "idle"]
    /\ arg' = [arg EXCEPT ![t] = 0]
    /\ found' = [found EXCEPT ![t] = FALSE]
    /\ UNCHANGED <<mgrVars, heapVars, oldHead, newHead, node, gcOld, cur, success, ret,
                   opsLeft>>

(***************************************************************************)
(* RcuList::pop                                                            *)
(***************************************************************************)
PopCall(t) ==
    /\ pc[t] = "idle"
    /\ opsLeft[t] > 0
    /\ opsLeft' = [opsLeft EXCEPT ![t] = opsLeft[t] - 1]
    /\ pc' = [pc EXCEPT ![t] = "pop_lock"]
    /\ UNCHANGED <<mgrVars, heapVars, localVars>>

PopLock(t) == readLock(t, "pop_lock", "pop_lock_store", "pop_load")

\* oldHead = head.load(); if (oldHead == nullptr) break; the break leaves
\* the loop before its readUnlock, and pop returns 0xDEAD.
PopLoad(t) ==
    /\ pc[t] = "pop_load"
    /\ oldHead' = [oldHead EXCEPT ![t] = head]
    /\ pc' = [pc EXCEPT ![t] = IF head = Null THEN "pop_empty" ELSE "pop_next"]
    /\ UNCHANGED <<mgrVars, heapVars, newHead, node, gcOld, cur, arg, found, success,
                   ret, opsLeft>>

\* return 0xDEAD.
PopEmpty(t) ==
    /\ pc[t] = "pop_empty"
    /\ pc' = [pc EXCEPT ![t] = "idle"]
    /\ UNCHANGED <<mgrVars, heapVars, localVars, opsLeft>>

\* newHead = oldHead->next.load().
PopNext(t) ==
    /\ pc[t] = "pop_next"
    /\ newHead' = [newHead EXCEPT ![t] = next[oldHead[t][1]]]
    /\ pc' = [pc EXCEPT ![t] = "pop_cas"]
    /\ UNCHANGED <<mgrVars, heapVars, oldHead, node, gcOld, cur, arg, found, success,
                   ret, opsLeft>>

\* pop whose compare-and-swap reports success and leaves head as it is.
PopCASKeep(t) ==
    /\ pc[t] = "pop_cas"
    /\ \E ok \in {SameAddr(head, oldHead[t]), FALSE} :
          /\ success' = [success EXCEPT ![t] = ok]
          /\ oldHead' = [oldHead EXCEPT ![t] = IF ok THEN oldHead[t] ELSE head]
    /\ newHead' = [newHead EXCEPT ![t] = Null]
    /\ pc' = [pc EXCEPT ![t] = "pop_unlock"]
    /\ UNCHANGED <<mgrVars, head, gcHead, done, next, data, live, gen, node, gcOld, cur,
                   arg, found, ret, opsLeft>>

\* head.compare_exchange_weak(oldHead, newHead), which may fail spuriously.
PopCAS(t) ==
    /\ pc[t] = "pop_cas"
    /\ \E ok \in {SameAddr(head, oldHead[t]), FALSE} :
          /\ success' = [success EXCEPT ![t] = ok]
          /\ head' = IF ok THEN newHead[t] ELSE head
          /\ oldHead' = [oldHead EXCEPT ![t] = IF ok THEN oldHead[t] ELSE head]
    /\ newHead' = [newHead EXCEPT ![t] = Null]
    /\ pc' = [pc EXCEPT ![t] = "pop_unlock"]
    /\ UNCHANGED <<mgrVars, gcHead, done, next, data, live, gen, node, gcOld, cur, arg,
                   found, ret, opsLeft>>

\* readUnlock and the loop test; after the loop, the call of search for
\* the assertion, with oldHead->data as its argument.
PopUnlock(t) ==
    /\ ReadUnlock(t, "pop_unlock", IF success[t] THEN "search_lock" ELSE "pop_lock")
    /\ IF success[t]
       THEN /\ arg' = [arg EXCEPT ![t] = data[oldHead[t][1]]]
            /\ ret' = [ret EXCEPT ![t] = "pop_assert"]
            /\ UNCHANGED oldHead
       ELSE /\ oldHead' = [oldHead EXCEPT ![t] = Null]
            /\ UNCHANGED <<arg, ret>>
    /\ success' = [success EXCEPT ![t] = FALSE]
    /\ UNCHANGED <<heapVars, newHead, node, gcOld, cur, found, opsLeft>>

\* assert(!search(manager, oldHead->data)); result = oldHead->data; and the
\* call of gc.discard.  A failed assertion aborts.
PopAssert(t) ==
    /\ pc[t] = "pop_assert"
    /\ pc' = [pc EXCEPT ![t] = IF found[t] THEN "abort" ELSE "discard_lock"]
    /\ arg' = [arg EXCEPT ![t] = data[oldHead[t][1]]]
    /\ found' = [found EXCEPT ![t] = FALSE]
    /\ UNCHANGED <<mgrVars, heapVars, oldHead, newHead, node, gcOld, cur, success, ret,
                   opsLeft>>

(***************************************************************************)
(* GarbageCollector::discard, called by pop with t = oldHead               *)
(***************************************************************************)
DiscardLock(t) == readLock(t, "discard_lock", "discard_lock_store", "discard_load")

\* oldHead = head.load(); t->getGcNext().store(oldHead).  getGcNext is the
\* node's next link.
DiscardLoad(t) ==
    /\ pc[t] = "discard_load"
    /\ gcOld' = [gcOld EXCEPT ![t] = gcHead]
    /\ next' = [next EXCEPT ![oldHead[t][1]] = gcHead]
    /\ pc' = [pc EXCEPT ![t] = "discard_cas"]
    /\ UNCHANGED <<mgrVars, head, gcHead, done, data, live, gen, oldHead, newHead, node,
                   cur, arg, found, success, ret, opsLeft>>

\* head.compare_exchange_weak(oldHead, t), which may fail spuriously.
DiscardCAS(t) ==
    /\ pc[t] = "discard_cas"
    /\ \E ok \in {SameAddr(gcHead, gcOld[t]), FALSE} :
          /\ success' = [success EXCEPT ![t] = ok]
          /\ gcHead' = IF ok THEN oldHead[t] ELSE gcHead
    /\ pc' = [pc EXCEPT ![t] = "discard_unlock"]
    /\ UNCHANGED <<mgrVars, head, done, next, data, live, gen, oldHead, newHead, node,
                   gcOld, cur, arg, found, ret, opsLeft>>

\* discard that deletes the node once it is in the intake list.
DiscardUnlockDelete(t) ==
    /\ ReadUnlock(t, "discard_unlock", IF success[t] THEN "idle" ELSE "discard_lock")
    /\ gcOld' = [gcOld EXCEPT ![t] = Null]
    /\ oldHead' = [oldHead EXCEPT ![t] = IF success[t] THEN Null ELSE oldHead[t]]
    /\ arg' = [arg EXCEPT ![t] = IF success[t] THEN 0 ELSE arg[t]]
    /\ live' = [live EXCEPT ![oldHead[t][1]] = ~success[t]]
    /\ success' = [success EXCEPT ![t] = FALSE]
    /\ UNCHANGED <<head, gcHead, done, next, data, gen, newHead, node, cur, found, ret,
                   opsLeft>>

\* readUnlock and the loop test; on success discard returns, and pop
\* returns the result.
DiscardUnlock(t) ==
    /\ ReadUnlock(t, "discard_unlock", IF success[t] THEN "idle" ELSE "discard_lock")
    /\ gcOld' = [gcOld EXCEPT ![t] = Null]
    /\ oldHead' = [oldHead EXCEPT ![t] = IF success[t] THEN Null ELSE oldHead[t]]
    /\ arg' = [arg EXCEPT ![t] = IF success[t] THEN 0 ELSE arg[t]]
    /\ success' = [success EXCEPT ![t] = FALSE]
    /\ UNCHANGED <<heapVars, newHead, node, cur, found, ret, opsLeft>>

(***************************************************************************)
(* GarbageCollector::gcLoop, the worker, and join                          *)
(***************************************************************************)
GcRegister == Manager(RegisterThread(GC, "gc_start", "gc_loop"))

\* The loop test of a worker that empties the intake before it stops.
GcLoopDrain ==
    /\ pc[GC] = "gc_loop"
    /\ done \/ gcHead # Null \/ opsLeft[GC] > 0
    /\ pc' = [pc EXCEPT ![GC] = IF done /\ gcHead = Null THEN "gc_unregister" ELSE "gc_lock"]
    /\ UNCHANGED <<mgrVars, heapVars, localVars, opsLeft>>

\* while (!gc->done.load()).  The worker polls an empty intake
\* MaxEmptyPolls times; after that it is looked at again when a discard has
\* filled the intake or join has set the flag.
GcLoop ==
    /\ pc[GC] = "gc_loop"
    /\ done \/ gcHead # Null \/ opsLeft[GC] > 0
    /\ pc' = [pc EXCEPT ![GC] = IF done THEN "gc_unregister" ELSE "gc_lock"]
    /\ UNCHANGED <<mgrVars, heapVars, localVars, opsLeft>>

GcLock == readLock(GC, "gc_lock", "gc_lock_store", "gc_load")

\* oldHead = gc->head.load(); if (oldHead == nullptr) break; the break
\* leaves the loop before its readUnlock; then sleep and continue.
GcLoad ==
    /\ pc[GC] = "gc_load"
    /\ gcOld' = [gcOld EXCEPT ![GC] = gcHead]
    /\ pc' = [pc EXCEPT ![GC] = IF gcHead = Null THEN "gc_loop" ELSE "gc_cas"]
    /\ opsLeft' = [opsLeft EXCEPT ![GC] = IF gcHead = Null THEN opsLeft[GC] - 1
                                          ELSE opsLeft[GC]]
    /\ UNCHANGED <<mgrVars, heapVars, oldHead, newHead, node, cur, arg, found, success,
                   ret>>

\* gc->head.compare_exchange_weak(oldHead, nullptr), which may fail
\* spuriously.
GcCAS ==
    /\ pc[GC] = "gc_cas"
    /\ \E ok \in {SameAddr(gcHead, gcOld[GC]), FALSE} :
          /\ success' = [success EXCEPT ![GC] = ok]
          /\ gcHead' = IF ok THEN Null ELSE gcHead
          /\ gcOld' = [gcOld EXCEPT ![GC] = IF ok THEN gcOld[GC] ELSE gcHead]
    /\ pc' = [pc EXCEPT ![GC] = "gc_unlock"]
    /\ UNCHANGED <<mgrVars, head, done, next, data, live, gen, oldHead, newHead, node,
                   cur, arg, found, ret, opsLeft>>

GcSkipSynchronize ==
    /\ ReadUnlock(GC, "gc_unlock", IF success[GC] THEN "gc_free" ELSE "gc_lock")
    /\ cur' = [cur EXCEPT ![GC] = IF success[GC] THEN gcOld[GC] ELSE Null]
    /\ success' = [success EXCEPT ![GC] = FALSE]
    /\ UNCHANGED <<heapVars, oldHead, newHead, node, gcOld, arg, found, ret, opsLeft>>

\* readUnlock and the loop test; with the list captured, the call of
\* synchronize.
GcUnlock ==
    /\ ReadUnlock(GC, "gc_unlock", IF success[GC] THEN "sync_lock" ELSE "gc_lock")
    /\ success' = [success EXCEPT ![GC] = FALSE]
    /\ UNCHANGED <<heapVars, oldHead, newHead, node, gcOld, cur, arg, found, ret,
                   opsLeft>>

\* manager.synchronize(), then cur = oldHead.
GcSynchronize ==
    /\ synchronize(GC, "gc_free")
    /\ cur' = [cur EXCEPT ![GC] = IF pc'[GC] = "gc_free" THEN gcOld[GC] ELSE cur[GC]]
    /\ gcOld' = [gcOld EXCEPT ![GC] = IF pc'[GC] = "gc_free" THEN Null ELSE gcOld[GC]]
    /\ UNCHANGED <<heapVars, oldHead, newHead, node, arg, found, success, ret, opsLeft>>

\* One turn of the loop that frees the batch: next = cur->getGcNext(),
\* the store of nullptr, delete cur, cur = next; what a deleted node holds
\* is not defined, and is cleared here.
GcFree ==
    /\ pc[GC] = "gc_free"
    /\ IF cur[GC] = Null
       THEN /\ pc' = [pc EXCEPT ![GC] = "gc_loop"]
            /\ UNCHANGED <<next, data, live, cur>>
       ELSE /\ cur' = [cur EXCEPT ![GC] = next[cur[GC][1]]]
            /\ next' = [next EXCEPT ![cur[GC][1]] = Null]
            /\ data' = [data EXCEPT ![cur[GC][1]] = 0]
            /\ live' = [live EXCEPT ![cur[GC][1]] = FALSE]
            /\ UNCHANGED pc
    /\ UNCHANGED <<mgrVars, head, gcHead, done, gen, oldHead, newHead, node, gcOld, arg,
                   found, success, ret, opsLeft>>

\* manager.unregisterCurrentThread(), and the thread ends.
GcUnregister == Manager(UnregisterThread(GC, "gc_unregister", "gc_exit"))

\* join: done.store(true), then gcThread.join().
JoinCall(t) ==
    /\ pc[t] = "idle"
    /\ ~done
    /\ done' = TRUE
    /\ pc' = [pc EXCEPT ![t] = "join"]
    /\ UNCHANGED <<mgrVars, head, gcHead, next, data, live, gen, localVars, opsLeft>>

JoinReturn(t) ==
    /\ pc[t] = "join"
    /\ pc[GC] = "gc_exit"
    /\ pc' = [pc EXCEPT ![t] = "idle"]
    /\ UNCHANGED <<mgrVars, heapVars, localVars, opsLeft>>

(***************************************************************************)
(* Calls of the manager by its client threads                              *)
(***************************************************************************)
CallRegister(t) ==
    /\ pc[t] = "unregistered"
    /\ pc' = [pc EXCEPT ![t] = "register"]
    /\ UNCHANGED <<mgrVars, heapVars, localVars, opsLeft>>

DoRegister(t) == Manager(RegisterThread(t, "register", "idle"))

CallUnregister(t) ==
    /\ pc[t] = "idle"
    /\ pc' = [pc EXCEPT ![t] = "unregister"]
    /\ UNCHANGED <<mgrVars, heapVars, localVars, opsLeft>>

\* unregisterCurrentThread of a thread that may register again.
DoUnregister(t) == Manager(UnregisterThread(t, "unregister", "unregistered"))

\* unregisterCurrentThread of a thread that ends.
LastUnregister(t) == Manager(UnregisterThread(t, "unregister", "finished"))

CallSynchronize(t) ==
    /\ pc[t] = "idle"
    /\ pc' = [pc EXCEPT ![t] = "sync_lock"]
    /\ UNCHANGED <<mgrVars, heapVars, localVars, opsLeft>>

Synchronize(t) == Manager(synchronize(t, "idle"))

ReaderLock(t) == readLock(t, "idle", "read_lock_store", "idle")

ReaderUnlock(t) == Manager(ReadUnlock(t, "idle", "idle"))

(***************************************************************************)
(* History                                                                 *)
(***************************************************************************)
Quiescent(w) == Nesting(w) = 0
ReadersNow == {u \in AllThreads : Registered(u) /\ InCS(u)}
\* The readers that leave their critical section in this step.
Leaving == {u \in AllThreads : InCS(u) /\ Quiescent(gracePeriodCounter'[u])}
Calls(t) == pc[t] \notin SyncPcs /\ pc'[t] = "sync_lock"

RcuHistory ==
    /\ waitFor' = [t \in AllThreads |->
                     (IF Calls(t) THEN ReadersNow ELSE waitFor[t]) \ Leaving]
    /\ readersAtCall' = [t \in AllThreads |->
                     IF Calls(t) THEN ReadersNow
                     ELSE IF pc[t] = "sync_unlock" /\ pc'[t] # "sync_unlock" THEN {}
                     ELSE readersAtCall[t]]
    /\ beforeFlip' = [t \in AllThreads |->
                     (IF pc[t] = "sync_toggle1" /\ pc'[t] = "sync_wait1" THEN ReadersNow
                      ELSE IF pc[t] = "sync_unlock" /\ pc'[t] # "sync_unlock" THEN {}
                      ELSE beforeFlip[t]) \ Leaving]

\* The addresses reached from p along the next links.
RECURSIVE ChainFrom(_, _)
ChainFrom(p, n) ==
    IF p = Null \/ n = 0 THEN {} ELSE {p[1]} \cup ChainFrom(next[p[1]], n - 1)
Chain(p) == ChainFrom(p, NAddrs)
\* The values in the stack.
StackValues == {data[a] : a \in Chain(head)}
StackValuesNext == {data'[a] : a \in Chain(head)'}

Captures == pc[GC] = "gc_cas" /\ success'[GC]

ListHistory ==
    /\ batch' = IF Captures THEN Chain(gcOld[GC])
                ELSE batch \ {a \in Addrs : live[a] /\ ~live'[a]}
    /\ syncsOfBatch' = IF Captures \/ pc'[GC] = "gc_loop" THEN 0
                       ELSE IF pc[GC] = "sync_unlock" /\ pc'[GC] # "sync_unlock"
                            THEN syncsOfBatch + 1
                       ELSE syncsOfBatch
    /\ stable' = [t \in AllThreads |->
                    IF pc[t] = "idle" /\ pc'[t] = "search_lock"
                    THEN arg'[t] \in StackValuesNext
                    ELSE IF pc'[t] = "idle" THEN FALSE
                    ELSE stable[t] /\ arg[t] \in StackValuesNext]
    /\ discarded' = discarded \cup
           {oldHead[t] : t \in {u \in Clients : pc[u] = "discard_unlock" /\ pc'[u] = "idle"}}

\* What a call of the stack that returns in this step adds to hist.
Returned(t) ==
    IF pc[t] = "push_unlock" /\ pc'[t] = "idle" THEN << <<"push", arg[t]>> >>
    ELSE IF pc[t] = "pop_empty" /\ pc'[t] = "idle" THEN << <<"pop", DEAD>> >>
    ELSE IF pc[t] = "discard_unlock" /\ pc'[t] = "idle" THEN << <<"pop", arg[t]>> >>
    ELSE IF pc[t] = "search_return" /\ pc'[t] = "idle"
         THEN << <<IF found[t] THEN "found" ELSE "missed", arg[t]>> >>
    ELSE <<>>

\* A failed assertion has ended the process.
Aborted == \E t \in AllThreads : pc[t] = "abort"

ListKept ==
    /\ ~Aborted
    /\ ListHistory
    /\ hist' = IF recordHist /\ \E t \in Clients : Returned(t) # <<>>
               THEN hist \o Returned(CHOOSE t \in Clients : Returned(t) # <<>>)
               ELSE hist
    /\ UNCHANGED <<rcuHist, recordHist>>

\* rec: whether the calls that return are recorded in hist.
HistInit(rec) ==
    /\ waitFor = [t \in AllThreads |-> {}]
    /\ readersAtCall = [t \in AllThreads |-> {}]
    /\ beforeFlip = [t \in AllThreads |-> {}]
    /\ batch = {}
    /\ syncsOfBatch = 0
    /\ stable = [t \in AllThreads |-> FALSE]
    /\ discarded = {}
    /\ hist = <<>>
    /\ recordHist = rec

(***************************************************************************)
(* The stack with its reclaimer: the operations as the steps they are      *)
(* made of, with the history kept along each.                              *)
(***************************************************************************)
push(t) ==
    \/ PushCall(t) /\ ListKept
    \/ PushLock(t) /\ ListKept
    \/ PushLoad(t) /\ ListKept
    \/ PushCAS(t) /\ ListKept
    \/ PushUnlock(t) /\ ListKept

search(t) ==
    \/ SearchCall(t) /\ ListKept
    \/ SearchLock(t) /\ ListKept
    \/ SearchHead(t) /\ ListKept
    \/ SearchVisit(t) /\ ListKept
    \/ SearchUnlock(t) /\ ListKept
    \/ SearchReturn(t) /\ ListKept

pop(t) ==
    \/ PopCall(t) /\ ListKept
    \/ PopLock(t) /\ ListKept
    \/ PopLoad(t) /\ ListKept
    \/ PopEmpty(t) /\ ListKept
    \/ PopNext(t) /\ ListKept
    \/ PopCAS(t) /\ ListKept
    \/ PopUnlock(t) /\ ListKept
    \/ PopAssert(t) /\ ListKept

discard(t) ==
    \/ DiscardLock(t) /\ ListKept
    \/ DiscardLoad(t) /\ ListKept
    \/ DiscardCAS(t) /\ ListKept
    \/ DiscardUnlock(t) /\ ListKept

gcLoop ==
    \/ GcRegister /\ ListKept
    \/ GcLoop /\ ListKept
    \/ GcLock /\ ListKept
    \/ GcLoad /\ ListKept
    \/ GcCAS /\ ListKept
    \/ GcUnlock /\ ListKept
    \/ GcSynchronize /\ ListKept
    \/ GcFree /\ ListKept

\* The end of gcLoop, once the worker has seen the flag.
gcExit == GcUnregister /\ ListKept

join(t) ==
    \/ JoinCall(t) /\ ListKept
    \/ JoinReturn(t) /\ ListKept

\* The manager with the threads of reg registered, in that order.
ManagerWith(reg) ==
    /\ mutex = NoOwner
    /\ globalGracePeriod = 1
    /\ entries = reg
    /\ gracePeriodCounter = [t \in AllThreads |-> 0]
    /\ global = [t \in AllThreads |-> 0]
    /\ newGracePeriod = [t \in AllThreads |-> 0]
    /\ entryIt = [t \in AllThreads |-> 0]

\* The state after RcuManager manager; RcuList list(manager) and the
\* registerCurrentThread call each client starts with: the worker thread
\* has been started and has not registered yet.  ops is the number of
\* calls each client makes, rec whether hist is kept.
ListInit(ops, rec) ==
    /\ ManagerWith([i \in 1..NClients |-> i])
    /\ HeapInit /\ LocalsInit /\ HistInit(rec)
    /\ pc = [t \in AllThreads |-> IF t = GC THEN "gc_start"
                                  ELSE IF t \in Clients THEN "idle" ELSE "off"]
    /\ opsLeft = [t \in AllThreads |-> IF t = GC THEN MaxEmptyPolls
                                       ELSE IF t \in Clients THEN ops[t] ELSE 0]

InitList == ListInit([t \in Clients |-> IF t = 1 THEN MaxOps ELSE OtherOps], FALSE)

NextList ==
    \/ \E t \in Clients :
          \/ push(t)
          \/ pop(t)
          \/ discard(t)
          \/ search(t)
    \/ gcLoop

SpecList == InitList /\ [][NextList]_vars

\* The stack with join: client 1 is the thread that owns the stack; it
\* makes one call fewer, and calls join between two of its calls, before
\* or after them.
InitJoin == ListInit([t \in Clients |-> IF t = 1 THEN MaxOps - 1 ELSE OtherOps], FALSE)

NextJoin ==
    \/ NextList
    \/ join(1)
    \/ gcExit

SpecJoin == InitJoin /\ [][NextJoin]_vars

\* The node the thread's next step reads or writes a field of: oldHead->next
\* and oldHead->data in pop, t->getGcNext() in discard, cur->data and
\* cur->next in search, newNode->next in push, cur->getGcNext() in gcLoop.
Derefs(t) ==
    IF pc[t] \in {"pop_next", "pop_assert", "discard_load"} THEN oldHead[t]
    ELSE IF pc[t] = "pop_unlock" /\ success[t] THEN oldHead[t]
    ELSE IF pc[t] = "search_visit" THEN cur[t]
    ELSE IF pc[t] = "push_load" THEN node[t]
    ELSE IF pc[t] = "gc_free" THEN cur[t]
    ELSE Null

\* C2: no thread reads or writes a field of a node after the worker has
\* deleted it: the node a thread is about to dereference is the node its
\* pointer was loaded from, still allocated.
NoUseAfterFree ==
    \A t \in AllThreads : Derefs(t) # Null => Valid(Derefs(t))

\* A client is about to dereference a node of the batch the worker has
\* captured, while the worker is in the synchronize call for that batch.
ReaderHoldsBatchNode ==
    \E t \in Clients :
        /\ pc[t] \in {"search_visit", "pop_next"}
        /\ Derefs(t)[1] \in batch
        /\ pc[GC] \in {"sync_wait1", "sync_wait2"}

\* C3: a node is deleted only by the worker, as a node of the batch it
\* captured, after exactly one synchronize call made since the capture has
\* returned; and the worker is back at its loop only with the whole batch
\* deleted.
DeletedAfterSynchronize ==
    /\ [][\A a \in Addrs :
            live[a] /\ ~live'[a] =>
                pc[GC] = "gc_free" /\ a \in batch /\ syncsOfBatch = 1]_vars
    /\ [](pc[GC] = "gc_free" => syncsOfBatch = 1)
    /\ [](pc[GC] = "gc_loop" => batch = {})

\* The worker is freeing a batch of two nodes: one is deleted, one is left.
BatchHalfDeleted ==
    /\ pc[GC] = "gc_free"
    /\ Cardinality(batch) = 1
    /\ \E a \in Addrs : gen[a] > 0 /\ ~live[a]

(***************************************************************************)
(* The bare manager: threads register, nest read locks up to MaxNest,      *)
(* synchronize outside their critical sections, and unregister.            *)
(***************************************************************************)
InitRcu ==
    /\ ManagerInit /\ HeapInit /\ LocalsInit /\ HistInit(FALSE)
    /\ pc = [t \in AllThreads |-> IF t \in Threads THEN "unregistered" ELSE "off"]
    /\ opsLeft = [t \in AllThreads |-> 0]

\* The history of the manager is kept along every step.
RcuKept == RcuHistory /\ UNCHANGED <<listHist, hist, recordHist>>

RcuCallRegister(t) == CallRegister(t) /\ RcuKept
RcuRegister(t) == DoRegister(t) /\ RcuKept
RcuCallUnregister(t) == ~InCS(t) /\ CallUnregister(t) /\ RcuKept
RcuUnregister(t) == DoUnregister(t) /\ RcuKept
RcuReadLock(t) == Nesting(gracePeriodCounter[t]) < MaxNest /\ ReaderLock(t) /\ RcuKept
RcuReadUnlock(t) == InCS(t) /\ ReaderUnlock(t) /\ RcuKept
RcuCallSynchronize(t) == ~InCS(t) /\ CallSynchronize(t) /\ RcuKept
RcuSynchronize(t) == Synchronize(t) /\ RcuKept

NextRcu ==
    \E t \in Threads :
        \/ RcuCallRegister(t)
        \/ RcuRegister(t)
        \/ RcuCallUnregister(t)
        \/ RcuUnregister(t)
        \/ RcuReadLock(t)
        \/ RcuReadUnlock(t)
        \/ RcuCallSynchronize(t)
        \/ RcuSynchronize(t)

SpecRcu == InitRcu /\ [][NextRcu]_vars

\* The positions of synchronize with the mutex held.
InsideSync == SyncPcs \ {"sync_lock"}

\* C16: at most one thread is inside synchronize with the mutex taken, and
\* it is the owner of the mutex; the global word changes only in a step of
\* that thread; and the registry does not change while a thread is there.
WriterExclusion ==
    /\ [](\A t, u \in Threads :
            pc[t] \in InsideSync /\ pc[u] \in InsideSync => t = u /\ mutex = t)
    /\ [][globalGracePeriod' # globalGracePeriod =>
             \E t \in Threads :
                /\ mutex = t
                /\ pc[t] \in {"sync_toggle1", "sync_toggle2"}
                /\ pc'[t] # pc[t]]_vars
    /\ [][entries' # entries => \A t \in Threads : pc[t] \notin InsideSync]_vars

\* A thread is in a wait of synchronize while a second waits for the mutex
\* in synchronize and a third waits for it to register or unregister.
WritersContend ==
    \E t, u, v \in Threads :
        /\ pc[t] \in {"sync_wait1", "sync_wait2"}
        /\ pc[u] = "sync_lock"
        /\ pc[v] \in {"register", "unregister"}

\* Thread u takes part in the step.
Moved(u) ==
    \/ pc'[u] # pc[u]
    \/ gracePeriodCounter'[u] # gracePeriodCounter[u]
    \/ global'[u] # global[u]
    \/ entryIt'[u] # entryIt[u]
    \/ newGracePeriod'[u] # newGracePeriod[u]

\* The step stores the word readLock loaded, from depth 0.
OutermostStore(t) ==
    /\ pc[t] = "read_lock_store"
    /\ Nesting(gracePeriodCounter[t]) = 0
    /\ gracePeriodCounter'[t] = global[t]
    /\ Nesting(global[t]) = 1

\* C17 as stated: a thread's counter changes only in steps of that thread,
\* and its snapshot bit changes only in the store of an outermost readLock,
\* to the bit of the global word that readLock loaded.
CounterOwnedBitOnOutermost ==
    [][\A t \in Threads :
         /\ gracePeriodCounter'[t] # gracePeriodCounter[t] =>
               \A u \in Threads \ {t} : ~Moved(u)
         /\ GPBit(gracePeriodCounter'[t]) # GPBit(gracePeriodCounter[t]) =>
               OutermostStore(t)]_vars

\* C17, amended: a thread's counter changes only in steps of that thread;
\* its snapshot bit changes only in the store of an outermost readLock, to
\* the bit of the global word that readLock loaded, or in
\* registerCurrentThread, which stores 0; nested readLock and readUnlock
\* keep it.
CounterOwnedBitOnOutermostOrRegister ==
    [][\A t \in Threads :
         /\ gracePeriodCounter'[t] # gracePeriodCounter[t] =>
               \A u \in Threads \ {t} : ~Moved(u)
         /\ GPBit(gracePeriodCounter'[t]) # GPBit(gracePeriodCounter[t]) =>
               \/ OutermostStore(t)
               \/ pc[t] = "register" /\ pc'[t] = "idle" /\ gracePeriodCounter'[t] = 0
         /\ (InCS(t) /\ pc[t] = "idle" /\ Moved(t)) =>
               /\ GPBit(gracePeriodCounter'[t]) = GPBit(gracePeriodCounter[t])
               /\ Nesting(gracePeriodCounter'[t]) - Nesting(gracePeriodCounter[t])
                     \in {-1, 0, 1}]_vars

\* A thread is about to register again with the snapshot bit of its last
\* critical section still set.
RegistersWithBitSet ==
    \E t \in Threads : pc[t] = "register" /\ GPBit(gracePeriodCounter[t]) # 0

\* C1: when a synchronize call has returned, every critical section that
\* was in progress when it was called has ended.
GracePeriodGuarantee ==
    \A t \in Threads : pc[t] \notin SyncPcs => waitFor[t] = {}

\* A synchronize call has passed both of its waits, and readers were in a
\* critical section when it was called.
GracePeriodWaited ==
    \E t \in Threads : pc[t] = "sync_unlock" /\ readersAtCall[t] # {}

\* C18: the wait after the second flip of a synchronize call passes the
\* entry of a reader that is inside a critical section only if the reader
\* entered it after the first flip of that call; once the second wait is
\* over, every reader that was in a critical section at the first flip has
\* left it.
TwoFlips ==
    /\ [][\A s \in Threads :
            (pc[s] = "sync_wait2" /\ entryIt'[s] = entryIt[s] + 1) =>
                LET u == entries[entryIt[s]] IN
                InCS(u) =>
                    /\ u \notin beforeFlip[s]
                    /\ GPBit(gracePeriodCounter[u]) = GPBit(globalGracePeriod)]_vars
    /\ [](\A s \in Threads : pc[s] = "sync_unlock" => beforeFlip[s] = {})

\* The wait after the second flip is at the entry of a reader that is
\* inside a critical section with the snapshot bit of the global word, and
\* a reader that was in a critical section at the first flip has left it.
SecondWaitPassesNewReader ==
    \E s, u \in Threads :
        /\ pc[s] = "sync_wait2"
        /\ entryIt[s] <= Len(entries) /\ entries[entryIt[s]] = u
        /\ InCS(u)
        /\ GPBit(gracePeriodCounter[u]) = GPBit(globalGracePeriod)
        /\ readersAtCall[s] # {}

\* The entry a wait of synchronize stands on passes its test: depth zero, or
\* the snapshot bit of the global word.
EntryPasses(s) ==
    LET entryGP == gracePeriodCounter[entries[entryIt[s]]] IN
    \/ Nesting(entryGP) = 0
    \/ GPBit(entryGP) = GPBit(globalGracePeriod)

\* C19: a wait of synchronize moves to the next entry only in a step in
\* which the entry's counter has depth zero or the snapshot bit of the
\* global word as the flip left it; while the counter has neither, the wait
\* stays on that entry; and it ends only past the last entry.
WaitOnlyPastQuiescentOrCurrent ==
    [][\A s \in Threads :
         pc[s] \in {"sync_wait1", "sync_wait2"} =>
            /\ newGracePeriod[s] = globalGracePeriod
            /\ entryIt'[s] = entryIt[s] + 1 => EntryPasses(s)
            /\ (entryIt[s] <= Len(entries) /\ ~EntryPasses(s)) =>
                  pc'[s] = pc[s] /\ entryIt'[s] = entryIt[s]
            /\ pc'[s] # pc[s] => entryIt[s] > Len(entries)]_vars

\* A wait of synchronize stands on the entry of a reader that is inside a
\* critical section with the other snapshot bit.
WaitHeldByReader ==
    \E s \in Threads :
        /\ pc[s] \in {"sync_wait1", "sync_wait2"}
        /\ entryIt[s] <= Len(entries)
        /\ ~EntryPasses(s)

\* C20 as stated: the store of an outermost readLock leaves the counter at
\* depth 1 with the snapshot bit the global word has at that moment.
OutermostTakesCurrentBit ==
    [][\A t \in Threads :
         (pc[t] = "read_lock_store" /\ pc'[t] # pc[t]) =>
            /\ Nesting(gracePeriodCounter'[t]) = 1
            /\ GPBit(gracePeriodCounter'[t]) = GPBit(globalGracePeriod)]_vars

\* C20, amended: the store of an outermost readLock leaves the counter at
\* depth 1 with the snapshot bit the global word had when readLock loaded
\* it, whatever flips were made since.
OutermostTakesLoadedBit ==
    [][\A t \in Threads :
         /\ (pc[t] = "idle" /\ pc'[t] = "read_lock_store") =>
               ~InCS(t) /\ global'[t] = globalGracePeriod
         /\ (pc[t] = "read_lock_store" /\ pc'[t] = pc[t]) => global'[t] = global[t]
         /\ (pc[t] = "read_lock_store" /\ pc'[t] # pc[t]) =>
               /\ gracePeriodCounter'[t] = global[t]
               /\ Nesting(gracePeriodCounter'[t]) = 1]_vars

\* A thread has loaded the global word in an outermost readLock, and a flip
\* of synchronize has changed the word before the store.
FlipBetweenLoadAndStore ==
    \E t \in Threads :
        /\ pc[t] = "read_lock_store"
        /\ GPBit(global[t]) # GPBit(globalGracePeriod)

\* C21: the bits of the global word below the top bit are always exactly 1;
\* the word differs from its initial value 1 only between the first and
\* the second flip of a synchronize call, so it is 1 whenever no thread is
\* inside synchronize; and only the flips change it.
GlobalWordShape ==
    /\ [](Nesting(globalGracePeriod) = 1)
    /\ [](globalGracePeriod # 1 =>
             \E t \in Threads : pc[t] \in {"sync_wait1", "sync_toggle2"})
    /\ []((\A t \in Threads : pc[t] \notin InsideSync) => globalGracePeriod = 1)
    /\ [][globalGracePeriod' # globalGracePeriod =>
             globalGracePeriod' = ToggleGP(globalGracePeriod)]_vars

\* A synchronize call that readers were in the way of has made both flips,
\* and the global word is back at 1.
BothFlipsMade ==
    \E t \in Threads :
        /\ pc[t] = "sync_unlock"
        /\ readersAtCall[t] # {}
        /\ globalGracePeriod = 1
        /\ \E u \in Threads : InCS(u) /\ GPBit(gracePeriodCounter[u]) # 0

\* C29: a thread that is outside the other calls of the manager can take
\* every step of readLock and of readUnlock in every state, whoever holds
\* the mutex; and a step of readLock or readUnlock changes the calling
\* thread's counter and nothing else that is shared: not the global word,
\* the registry, the mutex or another thread's counter.
ReaderFastPath ==
    /\ [](\A t \in Threads :
            /\ pc[t] = "idle" =>
                  /\ ENABLED (ReaderLock(t) /\ RcuKept)
                  /\ ENABLED (ReaderUnlock(t) /\ RcuKept)
            /\ pc[t] = "read_lock_store" => ENABLED (ReaderLock(t) /\ RcuKept))
    /\ [][\A t \in Threads :
            (\/ pc[t] = "read_lock_store" /\ pc'[t] = "idle"
             \/ pc[t] = "idle" /\ pc'[t] = "read_lock_store"
             \/ pc[t] = "idle" /\ pc'[t] = "idle"
                   /\ gracePeriodCounter'[t] # gracePeriodCounter[t]) =>
               /\ globalGracePeriod' = globalGracePeriod
               /\ entries' = entries
               /\ mutex' = mutex
               /\ \A u \in Threads \ {t} :
                     gracePeriodCounter'[u] = gracePeriodCounter[u] /\ ~Moved(u)]_vars

\* A thread has entered a critical section while another thread holds the
\* mutex in a wait of synchronize and a third waits for the mutex.
ReaderEntersUnderMutex ==
    \E s, t, u \in Threads :
        /\ pc[s] \in {"sync_wait1", "sync_wait2"} /\ mutex = s
        /\ pc[u] \in {"sync_lock", "register", "unregister"}
        /\ pc[t] = "idle" /\ InCS(t)
        /\ GPBit(gracePeriodCounter[t]) = GPBit(globalGracePeriod)
        /\ globalGracePeriod # 1

\* The liveness properties are checked with two of the threads running.
FairThreads == {1, 2}

InitRcuFair ==
    /\ ManagerInit /\ HeapInit /\ LocalsInit /\ HistInit(FALSE)
    /\ pc = [t \in AllThreads |-> IF t \in FairThreads THEN "unregistered" ELSE "off"]
    /\ opsLeft = [t \in AllThreads |-> 0]

\* The mutex is granted to synchronize.
SyncGranted(t) == pc[t] = "sync_lock" /\ RcuSynchronize(t)
\* The steps of synchronize once it holds the mutex.
SyncRun(t) == pc[t] # "sync_lock" /\ RcuSynchronize(t)
\* readLock's store, once it has loaded the global word.
LockStore(t) == pc[t] = "read_lock_store" /\ RcuReadLock(t)

\* Every thread keeps running; the mutex is granted to a thread that keeps
\* asking for it; a reader leaves every critical section it enters.
FairSpecRcu ==
    /\ InitRcuFair
    /\ [][NextRcu]_vars
    /\ \A t \in Threads :
          /\ WF_vars(SyncRun(t))
          /\ SF_vars(SyncGranted(t))
          /\ WF_vars(LockStore(t))
          /\ []<>~InCS(t)

Main == 1
Churners == Threads \ {Main}

InitChurn ==
    /\ mutex = NoOwner
    /\ globalGracePeriod = 1
    /\ entries = <<Main>>
    /\ gracePeriodCounter = [t \in AllThreads |-> 0]
    /\ global = [t \in AllThreads |-> 0]
    /\ newGracePeriod = [t \in AllThreads |-> 0]
    /\ entryIt = [t \in AllThreads |-> 0]
    /\ HeapInit /\ LocalsInit /\ HistInit(FALSE)
    /\ pc = [t \in AllThreads |-> IF t = Main THEN "idle"
                                  ELSE IF t \in Churners THEN "unregistered" ELSE "off"]
    /\ opsLeft = [t \in AllThreads |-> IF t = Main THEN MaxSyncs ELSE 0]

\* threadFunction: register, sleep, unregister.
ChurnCallRegister(t) == CallRegister(t) /\ RcuKept
ChurnRegister(t) == DoRegister(t) /\ RcuKept
ChurnCallUnregister(t) == CallUnregister(t) /\ RcuKept
ChurnUnregister(t) == LastUnregister(t) /\ RcuKept

\* main calls synchronize again.
MainCallSynchronize ==
    /\ pc[Main] = "idle"
    /\ opsLeft[Main] > 0
    /\ opsLeft' = [opsLeft EXCEPT ![Main] = opsLeft[Main] - 1]
    /\ pc' = [pc EXCEPT ![Main] = "sync_lock"]
    /\ UNCHANGED <<mgrVars, heapVars, localVars>>
    /\ RcuKept

MainSynchronize == Synchronize(Main) /\ RcuKept

ChurnStep(t) ==
    \/ ChurnCallRegister(t)
    \/ ChurnRegister(t)
    \/ ChurnCallUnregister(t)
    \/ ChurnUnregister(t)

NextChurn ==
    \/ \E t \in Churners : ChurnStep(t)
    \/ MainCallSynchronize
    \/ MainSynchronize

SpecChurn == InitChurn /\ [][NextChurn]_vars

\* Every thread keeps running.
FairSpecChurn ==
    /\ SpecChurn
    /\ \A t \in Churners : WF_vars(ChurnStep(t))
    /\ WF_vars(MainCallSynchronize)
    /\ WF_vars(MainSynchronize)

ChurnDone ==
    /\ pc[Main] = "idle"
    /\ opsLeft[Main] = 0
    /\ \A t \in Churners : pc[t] = "finished"

\* C9: in the churn scenario some thread can take a step until every call
\* has returned, and every call does return.
ChurnTerminates ==
    /\ [](ChurnDone \/ ENABLED <<NextChurn>>_vars)
    /\ <>ChurnDone

\* A churning thread waits for the mutex while main is inside synchronize.
ChurnContended ==
    \E t \in Churners :
        /\ pc[t] \in {"register", "unregister"}
        /\ mutex = Main
        /\ Len(entries) > 1

(***************************************************************************)
(* The stack under concurrent calls                                        *)
(***************************************************************************)
\* C6: a search whose value has been in the stack from its call to its
\* return returns true.
SearchFindsStable ==
    \A t \in Clients : pc[t] = "search_return" /\ stable[t] => found[t]

\* The nodes handed to discard and not deleted: the intake list and the
\* batch the worker holds.
Pending == Chain(gcHead) \cup batch
\* No client is inside a call or a critical section.
ClientsQuiet == \A t \in Clients : pc[t] \in {"idle", "join"} /\ ~InCS(t)

\* C7: while the flag is not set and a node handed to discard is not yet
\* deleted, the worker can take a step that changes the state whenever the
\* clients are outside their calls and critical sections; with the clients
\* staying there, the node is deleted only if it can.
WorkerDrains ==
    (~done /\ ~Aborted /\ Pending # {} /\ ClientsQuiet) => ENABLED <<gcLoop>>_vars

\* C8: once join has set the flag, the worker can take a step that changes
\* the state until it has exited, whenever the clients are outside their
\* calls and critical sections.
JoinedWorkerExits ==
    (done /\ ~Aborted /\ pc[GC] # "gc_exit" /\ ClientsQuiet)
        => ENABLED <<gcLoop \/ gcExit>>_vars

(***************************************************************************)
(* The stack used by one thread (test.cpp, main, the first test): client 1 *)
(* makes MaxSeqOps calls, the other clients make none, and the worker      *)
(* runs.                                                                   *)
(***************************************************************************)
InitSeq == ListInit([t \in Clients |-> IF t = 1 THEN MaxSeqOps ELSE 0], TRUE)

SpecSeq == InitSeq /\ [][NextList]_vars

\* The calls of h are those of a stack that holds st, its top first: a pop
\* returns the top and removes it, or returns 0xDEAD when there is none.
RECURSIVE Lifo(_, _)
Lifo(h, st) ==
    IF h = <<>> THEN TRUE
    ELSE LET e == Head(h) IN
         IF e[1] = "push" THEN Lifo(Tail(h), <<e[2]>> \o st)
         ELSE IF e[1] = "pop"
              THEN IF st = <<>> THEN e[2] = DEAD /\ Lifo(Tail(h), st)
                   ELSE e[2] = Head(st) /\ Lifo(Tail(h), Tail(st))
         ELSE Lifo(Tail(h), st)

\* C10: with one thread using the stack, every pop returns, and returns the
\* value pushed last among those not yet popped.
LifoOrder == Lifo(hist, <<>>) /\ ~Aborted

\* The values of the nodes linked from p, the first first.
RECURSIVE DataFrom(_, _, _, _)
DataFrom(p, nx, dt, n) ==
    IF p = Null \/ n = 0 THEN <<>>
    ELSE <<dt[p[1]]>> \o DataFrom(nx[p[1]], nx, dt, n - 1)
\* The stack, its top first.
StackSeq == DataFrom(head, next, data, NAddrs)
StackSeqNext == DataFrom(head', next', data', NAddrs)

\* The positions of a search called by a client, from its call to its return.
SearchPcs == {"search_lock", "search_lock_store", "search_head", "search_visit",
              "search_unlock", "search_return"}

\* st without its first v.
RemoveFirst(st, v) ==
    IF \E i \in 1..Len(st) : st[i] = v
    THEN RemoveAt(st, CHOOSE i \in 1..Len(st) :
                          st[i] = v /\ \A j \in 1..(i - 1) : st[j] # v)
    ELSE st

\* Every search of h returned true exactly when its value was among st, the
\* values pushed and not yet popped.
RECURSIVE Membership(_, _)
Membership(h, st) ==
    IF h = <<>> THEN TRUE
    ELSE LET e == Head(h) IN
         IF e[1] = "push" THEN Membership(Tail(h), <<e[2]>> \o st)
         ELSE IF e[1] = "pop" THEN Membership(Tail(h), RemoveFirst(st, e[2]))
         ELSE /\ (e[1] = "found") = (\E i \in 1..Len(st) : st[i] = e[2])
              /\ Membership(Tail(h), st)

\* C11: with one thread using the stack, search(v) returns true exactly
\* when v has been pushed and not yet popped, and no step taken while a
\* search is running changes the contents of the stack.
SearchIsMembership ==
    /\ [](Membership(hist, <<>>))
    /\ [][(\E t \in Clients : pc[t] \in SearchPcs \/ pc'[t] \in SearchPcs)
             => StackSeqNext = StackSeq]_vars

\* A search has found a value that is below the top of the stack.
FoundBelowTop ==
    /\ Len(hist) = 3
    /\ hist[1][1] = "push" /\ hist[2][1] = "push" /\ hist[1][2] # hist[2][2]
    /\ hist[3] = <<"found", hist[1][2]>>

\* C12: a pop of the empty stack has returned 0xDEAD and leaves the stack
\* usable: the worker's synchronize call is not held up by the entry of a
\* client that is outside any call after such a pop.
EmptyPopHarmless ==
    \A t \in Clients :
        (/\ pc[t] = "idle"
         /\ \E i \in 1..Len(hist) : hist[i] = <<"pop", DEAD>>
         /\ pc[GC] \in {"sync_wait1", "sync_wait2"}
         /\ entryIt[GC] <= Len(entries)
         /\ entries[entryIt[GC]] = t)
        => WaitPredicate(gracePeriodCounter[t], newGracePeriod[GC])

(***************************************************************************)
(* A thread that registers and unregisters repeatedly: Main stays          *)
(* registered, Cycler registers MaxRegs times; both enter critical         *)
(* sections and call synchronize while they are registered.                *)
(***************************************************************************)
Cycler == 2
RegThreads == {Main, Cycler}

InitReg ==
    /\ ManagerWith(<<Main>>)
    /\ HeapInit /\ LocalsInit /\ HistInit(TRUE)
    /\ pc = [t \in AllThreads |-> IF t = Main THEN "idle"
                                  ELSE IF t = Cycler THEN "unregistered" ELSE "off"]
    /\ opsLeft = [t \in AllThreads |-> IF t = Cycler THEN MaxRegs ELSE 0]

\* What the manager holds: the registry, the global word and the mutex.
ManagerState == <<entries, globalGracePeriod, mutex>>

RegCallRegister ==
    /\ pc[Cycler] = "unregistered"
    /\ opsLeft[Cycler] > 0
    /\ opsLeft' = [opsLeft EXCEPT ![Cycler] = opsLeft[Cycler] - 1]
    /\ pc' = [pc EXCEPT ![Cycler] = "register"]
    /\ UNCHANGED <<mgrVars, heapVars, localVars>>
    /\ RcuKept

\* unregisterCurrentThread; hist takes what the manager holds after it.
RegUnregister ==
    /\ DoUnregister(Cycler)
    /\ RcuHistory
    /\ hist' = Append(hist, ManagerState')
    /\ UNCHANGED <<listHist, recordHist>>

NextReg ==
    \/ RegCallRegister
    \/ RcuRegister(Cycler)
    \/ RcuCallUnregister(Cycler)
    \/ RegUnregister
    \/ \E t \in RegThreads :
          \/ RcuReadLock(t)
          \/ RcuReadUnlock(t)
          \/ RcuCallSynchronize(t)
          \/ RcuSynchronize(t)

SpecReg == InitReg /\ [][NextReg]_vars

\* C13: what the manager holds after every unregisterCurrentThread of the
\* thread is what it held after the first, without the thread's entry; a
\* registerCurrentThread appends the entry and sets the counter to 0; and
\* no synchronize call returns while a critical section that was open at
\* its call, of the thread registered again or of another, is still open.
RegistrationIdempotent ==
    /\ [](\A i \in 1..Len(hist) : hist[i] = hist[1])
    /\ [](pc[Cycler] = "unregistered" => ~Registered(Cycler))
    /\ [][pc[Cycler] = "register" /\ pc'[Cycler] = "idle" =>
             /\ gracePeriodCounter'[Cycler] = 0
             /\ entries' = Append(entries, Cycler)]_vars
    /\ [](\A t \in RegThreads : pc[t] \notin SyncPcs => waitFor[t] = {})

\* A synchronize call of Main polls the entry of the thread, which has
\* registered for the third time and is in a critical section that was open
\* at the call.
ReregisteredWaitedFor ==
    /\ Len(hist) >= 2
    /\ pc[Main] \in {"sync_wait1", "sync_wait2"}
    /\ entryIt[Main] <= Len(entries) /\ entries[entryIt[Main]] = Cycler
    /\ Cycler \in waitFor[Main]

\* C14: a compare-and-swap of the stack head or of the intake head succeeds
\* only on the very node the thread loaded, not on another node at the same
\* address; a successful pop installs the successor of the node it removes;
\* and the contents of the stack change only by the value pushed or popped.
AbaSafe ==
    [][/\ \A t \in Clients :
            /\ pc[t] = "push_cas" /\ success'[t] =>
                  head = oldHead[t] /\ StackSeqNext = <<arg[t]>> \o StackSeq
            /\ pc[t] = "pop_cas" /\ success'[t] =>
                  /\ head = oldHead[t]
                  /\ newHead[t] = next[head[1]]
                  /\ StackSeqNext = Tail(StackSeq)
            /\ pc[t] = "discard_cas" /\ success'[t] => gcHead = gcOld[t]
       /\ pc[GC] = "gc_cas" /\ success'[GC] => gcHead = gcOld[GC]
       /\ (\A t \in Clients : ~(pc[t] \in {"push_cas", "pop_cas"} /\ success'[t]))
             => StackSeqNext = StackSeq]_vars

\* A pop is at its compare-and-swap with a node that another thread has
\* popped and the worker has captured, while the stack has a new top at
\* another address.
StalePopFacesNewHead ==
    \E t \in Clients :
        /\ pc[t] = "pop_cas"
        /\ oldHead[t][1] \in batch
        /\ head # Null /\ head[1] # oldHead[t][1]

\* C15: a node is deleted only by a step of the worker's free loop, only
\* while it is allocated (never a second time), and never while it is
\* linked in the stack.
DeletedOnceByWorker ==
    /\ [][\A a \in Addrs :
            live[a] /\ ~live'[a] =>
                /\ pc[GC] = "gc_free" /\ cur[GC][1] = a
                /\ a \notin Chain(head)
                /\ \A t \in Clients : pc'[t] = pc[t]]_vars
    /\ [](pc[GC] = "gc_free" /\ cur[GC] # Null => Valid(cur[GC]))
    /\ [](\A a \in Chain(head) : live[a])

\* The worker has deleted a popped node while another node is linked in
\* the stack.
DeletedBesideStack ==
    /\ pc[GC] = "gc_free"
    /\ head # Null
    /\ \E a \in Addrs : gen[a] > 0 /\ ~live[a]

\* C22: the worker holds no reader lock when it calls synchronize and when
\* it calls unregisterCurrentThread.
WorkerBalanced ==
    pc[GC] \in {"sync_lock", "gc_unregister"} => ~InCS(GC)

\* C23: every call of push, pop, search and discard returns with the
\* nesting depth the caller had when the call started: the clients start
\* at depth 0 and start every call outside any other, so a client that is
\* outside a call is at depth 0.
ClientBalanced ==
    \A t \in Clients : pc[t] = "idle" => Nesting(gracePeriodCounter[t]) = 0

(***************************************************************************)
(* The bare manager with synchronize called inside a critical section:     *)
(* the two threads of FairThreads, which may also call synchronize while   *)
(* they hold a reader lock.                                                *)
(***************************************************************************)
LockedCallSynchronize(t) == InCS(t) /\ CallSynchronize(t) /\ RcuKept

NextLocked ==
    \/ NextRcu
    \/ \E t \in Threads : LockedCallSynchronize(t)

SpecLocked == InitRcuFair /\ [][NextLocked]_vars

\* The thread is in a synchronize call that it made holding a reader lock.
LockedCaller(t) == pc[t] \in SyncPcs /\ Registered(t) /\ InCS(t)

\* C24: a synchronize call made by a registered thread that holds a reader
\* lock never returns: the caller keeps the lock, its wait never gets past
\* its own entry in the phase in which its snapshot bit is not the global
\* bit, and once it has the mutex it keeps it, so that no other thread
\* completes registerCurrentThread or unregisterCurrentThread or gets into
\* synchronize.
LockedSynchronizeNeverReturns ==
    /\ [][\A t \in Threads :
            LockedCaller(t) =>
               /\ pc'[t] \in SyncPcs
               /\ gracePeriodCounter'[t] = gracePeriodCounter[t]
               /\ pc[t] \in InsideSync =>
                     /\ mutex' = t /\ pc'[t] \in InsideSync
                     /\ entries' = entries
                     /\ \A u \in Threads \ {t} :
                           pc[u] \in {"register", "unregister", "sync_lock"} =>
                               pc'[u] = pc[u]]_vars
    /\ [](\A t \in Threads :
            (LockedCaller(t) /\ pc[t] \in {"sync_wait1", "sync_wait2"}
               /\ GPBit(gracePeriodCounter[t]) # GPBit(globalGracePeriod))
            => entryIt[t] <= spotInList(t))
    /\ [](\A t \in Threads : LockedCaller(t) => pc[t] # "sync_unlock")

\* A thread that called synchronize holding a reader lock has passed the
\* first wait and stands on its own entry in the second, while another
\* thread waits for the mutex to register.
LockedCallerAtOwnEntry ==
    \E t, u \in Threads :
        /\ LockedCaller(t)
        /\ pc[t] = "sync_wait2"
        /\ entryIt[t] = spotInList(t)
        /\ pc[u] = "register"

\* The node is linked in the intake list, is in the batch the worker
\* holds, has been deleted.
InIntake(p) == p[1] \in Chain(gcHead) /\ gen[p[1]] = p[2]
InBatch(p) == p[1] \in batch /\ gen[p[1]] = p[2]
Deleted(p) == ~Valid(p)
\* The addresses linked from the intake head, the first first, followed for
\* one step more than there are addresses.
IntakeSeq == DataFrom(gcHead, next, [a \in Addrs |-> a], NAddrs + 1)

\* C25: every node whose discard has returned is in exactly one of the
\* intake list, the batch the worker holds and the deleted nodes; the
\* worker's successful compare-and-swap takes every node of the intake
\* list and leaves it empty; the batch is what is linked from the pointer
\* the worker holds; the intake list ends, and no node is in it twice or
\* in it and in the batch.
IntakeConservation ==
    /\ [](\A p \in discarded :
            /\ InIntake(p) \/ InBatch(p) \/ Deleted(p)
            /\ ~(InIntake(p) /\ InBatch(p))
            /\ ~(InIntake(p) /\ Deleted(p))
            /\ ~(InBatch(p) /\ Deleted(p)))
    /\ [][Captures =>
            /\ gcHead = gcOld[GC]
            /\ batch' = Chain(gcHead)
            /\ gcHead' = Null]_vars
    /\ [](pc[GC] \in SyncPcs => batch = Chain(gcOld[GC]))
    /\ [](pc[GC] = "gc_free" => batch = Chain(cur[GC]))
    /\ [](/\ Len(IntakeSeq) <= NAddrs
          /\ \A i, j \in 1..Len(IntakeSeq) : IntakeSeq[i] = IntakeSeq[j] => i = j
          /\ Chain(gcHead) \cap batch = {})

\* The worker holds a batch with a node in it while a node whose discard
\* returned later is in the intake list.
BatchHeldIntakeFilled ==
    \E p, q \in discarded :
        /\ InBatch(p)
        /\ InIntake(q)
        /\ pc[GC] \in SyncPcs

\* The positions of the worker once it has seen the flag.
GcStopped == {"gc_unregister", "gc_exit"}

\* C26: the worker leaves its loop only at the loop test, when the flag is
\* set, and without looking at the intake list; from then on it takes
\* nothing from the intake list and deletes nothing, so a node in the
\* intake list then, or put there later, stays there.
ShutdownDoesNotDrain ==
    /\ [][(pc[GC] = "gc_loop" /\ done /\ pc'[GC] # pc[GC]) =>
             pc'[GC] = "gc_unregister" /\ gcHead' = gcHead]_vars
    /\ [][(pc'[GC] = "gc_unregister" /\ pc[GC] # "gc_unregister") =>
             pc[GC] = "gc_loop" /\ done]_vars
    /\ [][pc[GC] \in GcStopped =>
             /\ pc'[GC] \in GcStopped
             /\ \A a \in Addrs : live[a] => live'[a]
             /\ Chain(gcHead) \subseteq Chain(gcHead')]_vars

\* The worker has exited, join has returned, and a node whose discard has
\* returned is in the intake list.
ExitedWithIntake ==
    /\ pc[GC] = "gc_exit"
    /\ pc[1] = "idle" /\ done
    /\ \E p \in discarded : InIntake(p)

(***************************************************************************)
(* The bare manager with unmatched readUnlock calls: the two threads of    *)
(* FairThreads, each of which may call readUnlock at depth 0 MaxStray      *)
(* times.                                                                  *)
(***************************************************************************)
InitStray ==
    /\ ManagerInit /\ HeapInit /\ LocalsInit /\ HistInit(FALSE)
    /\ pc = [t \in AllThreads |-> IF t \in FairThreads THEN "unregistered" ELSE "off"]
    /\ opsLeft = [t \in AllThreads |-> IF t \in FairThreads THEN MaxStray ELSE 0]

\* readUnlock called at depth 0.
StrayUnlock(t) ==
    /\ ~InCS(t)
    /\ opsLeft[t] > 0
    /\ ReadUnlock(t, "idle", "idle")
    /\ opsLeft' = [opsLeft EXCEPT ![t] = opsLeft[t] - 1]
    /\ UNCHANGED <<heapVars, localVars>>
    /\ RcuKept

\* readLock called with the nesting field at its maximum.
WrappedReadLock(t) ==
    /\ Nesting(gracePeriodCounter[t]) = NESTING_MASK
    /\ ReaderLock(t)
    /\ RcuKept

NextStray ==
    \/ NextRcu
    \/ \E t \in Threads : StrayUnlock(t) \/ WrappedReadLock(t)

SpecStray == InitStray /\ [][NextStray]_vars

\* The step is a readUnlock made by t at depth 0.
Underflows(t) == ~InCS(t) /\ opsLeft'[t] # opsLeft[t]

\* What holds of readUnlock and of a wrapped counter whatever the snapshot
\* bit was: the nesting field goes to its maximum, so the thread is not
\* quiescent for synchronize; the next readLock takes the nested branch,
\* without a load of the global word; and a readUnlock inside a critical
\* section takes one from the depth and keeps the snapshot bit.
UnderflowFrame ==
    /\ [][\A t \in Threads :
            Underflows(t) =>
               /\ gracePeriodCounter'[t] = (gracePeriodCounter[t] + WordMod - 1) % WordMod
               /\ Nesting(gracePeriodCounter'[t]) = NESTING_MASK
               /\ ~Quiescent(gracePeriodCounter'[t])]_vars
    /\ [][\A t \in Threads :
            (Nesting(gracePeriodCounter[t]) = NESTING_MASK /\ pc[t] = "idle"
               /\ gracePeriodCounter'[t] # gracePeriodCounter[t]
               /\ Nesting(gracePeriodCounter'[t]) # NESTING_MASK - 1) =>
               /\ pc'[t] = "idle" /\ global'[t] = global[t]
               /\ gracePeriodCounter'[t] = (gracePeriodCounter[t] + 1) % WordMod]_vars
    /\ [][\A t \in Threads :
            (InCS(t) /\ pc[t] = "idle"
               /\ Nesting(gracePeriodCounter'[t]) # Nesting(gracePeriodCounter[t])
               /\ Nesting(gracePeriodCounter[t]) # NESTING_MASK) =>
               /\ Nesting(gracePeriodCounter'[t]) - Nesting(gracePeriodCounter[t]) \in {-1, 1}
               /\ GPBit(gracePeriodCounter'[t]) = GPBit(gracePeriodCounter[t])]_vars

\* C27 as stated: a readUnlock at depth 0 leaves the snapshot bit at 1 and
\* the nesting field at its maximum.
UnderflowSetsBit ==
    /\ UnderflowFrame
    /\ [][\A t \in Threads :
            Underflows(t) => GPBit(gracePeriodCounter'[t]) = GP_COUNTER_MASK]_vars

\* C27, amended: a readUnlock at depth 0 leaves the nesting field at its
\* maximum and the snapshot bit inverted: 1 when the counter was 0, 0 when
\* the last critical section had left the bit at 1.
UnderflowInvertsBit ==
    /\ UnderflowFrame
    /\ [][\A t \in Threads :
            Underflows(t) =>
               GPBit(gracePeriodCounter'[t]) = ToggleGP(GPBit(gracePeriodCounter[t]))]_vars

\* A wait of synchronize is held at the entry of a thread that is outside
\* any critical section, with the nesting field at its maximum and the
\* snapshot bit 0 after a readUnlock at depth 0.
WaitHeldByWrappedCounter ==
    \E s, t \in Threads :
        /\ pc[s] \in {"sync_wait1", "sync_wait2"}
        /\ entryIt[s] <= Len(entries) /\ entries[entryIt[s]] = t
        /\ pc[t] = "idle"
        /\ gracePeriodCounter[t] = NESTING_MASK
        /\ ~EntryPasses(s)

(***************************************************************************)
(* The stack with every value pushed once: the clients of SpecList, with   *)
(* each push given a value that no other push of the run is given.         *)
(***************************************************************************)
\* push called with a value of its own: the calls of a client are numbered
\* by opsLeft, and the clients' values lie MaxOps apart.
PushFresh(t) ==
    /\ pc[t] = "idle"
    /\ opsLeft[t] > 0
    /\ \E a \in Addrs :
          LET v == (t - 1) * MaxOps + opsLeft[t] IN
          /\ ~live[a]
          /\ live' = [live EXCEPT ![a] = TRUE]
          /\ gen' = [gen EXCEPT ![a] = gen[a] + 1]
          /\ next' = [next EXCEPT ![a] = Null]
          /\ data' = [data EXCEPT ![a] = v]
          /\ node' = [node EXCEPT ![t] = <<a, gen[a] + 1>>]
          /\ arg' = [arg EXCEPT ![t] = v]
    /\ opsLeft' = [opsLeft EXCEPT ![t] = opsLeft[t] - 1]
    /\ pc' = [pc EXCEPT ![t] = "push_lock"]
    /\ UNCHANGED <<mgrVars, head, gcHead, done, oldHead, newHead, gcOld, cur, found,
                   success, ret>>

pushFresh(t) ==
    \/ PushFresh(t) /\ ListKept
    \/ PushLock(t) /\ ListKept
    \/ PushLoad(t) /\ ListKept
    \/ PushCAS(t) /\ ListKept
    \/ PushUnlock(t) /\ ListKept

NextFresh ==
    \/ \E t \in Clients :
          \/ pushFresh(t)
          \/ pop(t)
          \/ discard(t)
          \/ search(t)
    \/ gcLoop

SpecFresh == InitList /\ [][NextFresh]_vars

\* C28: with every value pushed at most once, the assertion in pop holds:
\* the search that pop makes for the value of the node it has removed
\* returns false, and the process is not aborted.
AssertionHolds ==
    /\ \A t \in Clients : pc[t] = "pop_assert" => ~found[t]
    /\ ~Aborted

\* The search of pop's assertion stands on a node that another client has
\* popped since and is handing to discard.
AssertSearchOnPoppedNode ==
    \E t, u \in Clients :
        /\ t # u
        /\ pc[t] = "search_visit" /\ ret[t] = "pop_assert"
        /\ pc[u] \in {"discard_load", "discard_cas", "discard_unlock"}
        /\ cur[t] = oldHead[u]

====
